---------------------------- MODULE Spec2Model ----------------------------
(***************************************************************************)
(* Model of the eco2mix energy-mix importer (src/app.py).                  *)
(*                                                                         *)
(* Strings that the program parses (dates, period texts, periode           *)
(* attributes) are tuples of one-character strings, so that strptime and   *)
(* int() are computed character by character.  datetime.timestamp() on a   *)
(* naive datetime is evaluated with the process time zone set to UTC, the  *)
(* setting the docstring of get_unix_timestamp assumes.                    *)
(***************************************************************************)
EXTENDS Integers, Sequences, FiniteSets, TLC

VARIABLES pc, day, dayOut, xml, p, tableOutcome, submitted, answer, reported, wv, ret

vars == <<pc, day, dayOut, xml, p, tableOutcome, submitted, answer, reported, wv, ret>>

(***************************************************************************)
(* Outcomes of a call: a normal return carrying a value, or a raised       *)
(* exception named by its Python class.                                    *)
(***************************************************************************)
Ok(v) == [err |-> "", value |-> v]

Raise(e) == [err |-> e, value |-> <<>>]

NotCalled == [err |-> "not-called", value |-> <<>>]

(***************************************************************************)
(* int(str): optional surrounding blanks, optional sign, decimal digits.   *)
(***************************************************************************)
Digits == <<"0", "1", "2", "3", "4", "5", "6", "7", "8", "9">>

IsDigit(c) == \E i \in 1..Len(Digits) : Digits[i] = c

DigitVal(c) == (CHOOSE i \in 1..Len(Digits) : Digits[i] = c) - 1

AllDigits(s) == Len(s) > 0 /\ \A i \in 1..Len(s) : IsDigit(s[i])

RECURSIVE DigitsVal(_)
DigitsVal(s) ==
    IF Len(s) = 0 THEN 0
    ELSE DigitsVal(SubSeq(s, 1, Len(s) - 1)) * 10 + DigitVal(s[Len(s)])

RECURSIVE LStrip(_)
LStrip(s) == IF Len(s) > 0 /\ s[1] = " " THEN LStrip(Tail(s)) ELSE s

RECURSIVE RStrip(_)
RStrip(s) ==
    IF Len(s) > 0 /\ s[Len(s)] = " " THEN RStrip(SubSeq(s, 1, Len(s) - 1)) ELSE s

IntOfStr(s) ==
    LET t == RStrip(LStrip(s))
        signed == Len(t) > 0 /\ t[1] \in {"+", "-"}
        body == IF signed THEN Tail(t) ELSE t
    IN  IF AllDigits(body)
        THEN Ok(IF signed /\ t[1] = "-" THEN 0 - DigitsVal(body) ELSE DigitsVal(body))
        ELSE Raise("ValueError")

(***************************************************************************)
(* Element.text is None for an element without character data, otherwise   *)
(* a string.  int(None) raises TypeError.                                  *)
(***************************************************************************)
NoneText == [isNone |-> TRUE, s |-> <<>>]

Text(s) == [isNone |-> FALSE, s |-> s]

PyInt(text) == IF text.isNone THEN Raise("TypeError") ELSE IntOfStr(text.s)

(***************************************************************************)
(* datetime.strptime(date_str, "%Y-%m-%d")                                 *)
(***************************************************************************)
IsLeap(y) == (y % 4 = 0 /\ y % 100 # 0) \/ y % 400 = 0

DaysInMonth(y, m) ==
    IF m = 2 THEN (IF IsLeap(y) THEN 29 ELSE 28)
    ELSE IF m \in {4, 6, 9, 11} THEN 30 ELSE 31

\* %m : 1[0-2] | 0[1-9] | [1-9]
MatchesMonth(s) ==
    \/ Len(s) = 2 /\ s[1] = "1" /\ s[2] \in {"0", "1", "2"}
    \/ Len(s) = 2 /\ s[1] = "0" /\ IsDigit(s[2]) /\ s[2] # "0"
    \/ Len(s) = 1 /\ IsDigit(s[1]) /\ s[1] # "0"

\* %d : 3[0-1] | [1-2]\d | 0[1-9] | [1-9] | " "[1-9]
MatchesDay(s) ==
    \/ Len(s) = 2 /\ s[1] = "3" /\ s[2] \in {"0", "1"}
    \/ Len(s) = 2 /\ s[1] \in {"1", "2"} /\ IsDigit(s[2])
    \/ Len(s) = 2 /\ s[1] \in {"0", " "} /\ IsDigit(s[2]) /\ s[2] # "0"
    \/ Len(s) = 1 /\ IsDigit(s[1]) /\ s[1] # "0"

\* the format "%d/%m/%Y" in place of "%Y-%m-%d"
strptime_dmY_slash(s) ==
    LET cuts == {k \in 2..(Len(s) - 6) :
                    /\ s[k] = "/"
                    /\ MatchesDay(SubSeq(s, 1, k - 1))
                    /\ \E j \in (k + 2)..(Len(s) - 4) :
                          /\ s[j] = "/"
                          /\ MatchesMonth(SubSeq(s, k + 1, j - 1))
                          /\ j + 4 = Len(s)
                          /\ AllDigits(SubSeq(s, j + 1, Len(s)))}
    IN  IF cuts = {} THEN Raise("ValueError")
        ELSE LET k == CHOOSE c \in cuts : TRUE
                 j == Len(s) - 4
                 y == DigitsVal(SubSeq(s, j + 1, Len(s)))
                 m == DigitsVal(SubSeq(s, k + 1, j - 1))
                 d == DigitsVal(LStrip(SubSeq(s, 1, k - 1)))
             IN  IF y < 1 \/ d > DaysInMonth(y, m) THEN Raise("ValueError")
                 ELSE Ok([year |-> y, month |-> m, day |-> d])

strptime_Ymd(s) ==
    LET cuts == {k \in 7..8 :
                    /\ Len(s) > k
                    /\ AllDigits(SubSeq(s, 1, 4))
                    /\ s[5] = "-"
                    /\ s[k] = "-"
                    /\ MatchesMonth(SubSeq(s, 6, k - 1))
                    /\ MatchesDay(SubSeq(s, k + 1, Len(s)))}
    IN  IF cuts = {} THEN Raise("ValueError")
        ELSE LET k == CHOOSE c \in cuts : TRUE
                 y == DigitsVal(SubSeq(s, 1, 4))
                 m == DigitsVal(SubSeq(s, 6, k - 1))
                 d == DigitsVal(LStrip(SubSeq(s, k + 1, Len(s))))
             IN  IF y < 1 \/ d > DaysInMonth(y, m) THEN Raise("ValueError")
                 ELSE Ok([year |-> y, month |-> m, day |-> d])

(***************************************************************************)
(* Days between 1970-01-01 and a proleptic Gregorian date.                 *)
(***************************************************************************)
DaysFromCivil(year, m, d) ==
    LET y == IF m <= 2 THEN year - 1 ELSE year
        era == y \div 400
        yoe == y - era * 400
        mp == IF m > 2 THEN m - 3 ELSE m + 9
        doy == (153 * mp + 2) \div 5 + d - 1
        doe == yoe * 365 + yoe \div 4 - yoe \div 100 + doy
    IN  era * 146097 + doe - 719468

SecondsPerDay == 86400

MinutesPerPeriod == 15

\* timedelta(hours=...) in place of timedelta(minutes=...)
get_unix_timestamp_hours(date_str, period) ==
    LET date == strptime_Ymd(date_str)
    IN  IF date.err # "" THEN date
        ELSE Ok(DaysFromCivil(date.value.year, date.value.month, date.value.day)
                    * SecondsPerDay + period * MinutesPerPeriod * 3600)

get_unix_timestamp(date_str, period) ==
    LET date == strptime_Ymd(date_str)
    IN  IF date.err # "" THEN date
        ELSE Ok(DaysFromCivil(date.value.year, date.value.month, date.value.day)
                    * SecondsPerDay + period * MinutesPerPeriod * 60)

(***************************************************************************)
(* ENERGY_TYPES: source label -> canonical identifier.                     *)
(***************************************************************************)
ENERGY_TYPES_keys ==
    {"NuclÃ©aire", "Charbon", "Gaz", "Fioul", "Pointe", "Fioul + Pointe",
     "Hydraulique", "Eolien", "Solde", "Autres", "Pompage", "Solaire",
     "Consommation"}

ENERGY_TYPES ==
    [label \in ENERGY_TYPES_keys |->
        CASE label = "NuclÃ©aire" -> "nuclear"
          [] label = "Charbon" -> "coal"
          [] label = "Gaz" -> "gas"
          [] label = "Fioul" -> "heavy-oil"
          [] label = "Pointe" -> "oil"
          [] label = "Fioul + Pointe" -> "oil"
          [] label = "Hydraulique" -> "hydro"
          [] label = "Eolien" -> "wind"
          [] label = "Solde" -> "others"
          [] label = "Autres" -> "others"
          [] label = "Pompage" -> "pumped-storage"
          [] label = "Solaire" -> "solar"
          [] label = "Consommation" -> "consumption"]

CanonicalIds == {ENERGY_TYPES[label] : label \in ENERGY_TYPES_keys}

\* ENERGY_TYPES[label] with a pass-through default instead of KeyError
ENERGY_TYPES_getitem_default(label) ==
    IF label \in DOMAIN ENERGY_TYPES THEN Ok(ENERGY_TYPES[label]) ELSE Ok("others")

\* ENERGY_TYPES[label]
ENERGY_TYPES_getitem(label) ==
    IF label \in DOMAIN ENERGY_TYPES THEN Ok(ENERGY_TYPES[label]) ELSE Raise("KeyError")

(***************************************************************************)
(* dict operations used on a Reading's energy fields                       *)
(***************************************************************************)
EmptyDict == [k \in {} |-> 0]

DictGet(d, k, default) == IF k \in DOMAIN d THEN d[k] ELSE default

DictSet(d, k, v) == [x \in (DOMAIN d) \cup {k} |-> IF x = k THEN v ELSE d[x]]

\* list[i]: 1-based position of Python index i in a list of length n, 0 if out of range
ListPos(n, i) ==
    IF 0 <= i /\ i < n THEN i + 1
    ELSE IF i < 0 /\ 0 - n <= i THEN n + i + 1
    ELSE 0

(***************************************************************************)
(* parse_xml_day                                                           *)
(***************************************************************************)
\* lines 46-52: one Reading per period of the first energy-type element
InitialReadings(date, n) ==
    IF n = 0 THEN Ok(<<>>)
    ELSE IF get_unix_timestamp(date, 0).err # "" THEN Raise(get_unix_timestamp(date, 0).err)
    ELSE Ok([i \in 1..n |->
                [time |-> get_unix_timestamp(date, i - 1).value,
                 country |-> "FR",
                 vals |-> EmptyDict]])

\* line 61 with "=" in place of "+="
AccumulateOverwrite(energy_sum, value) == value

\* line 61: energy_sum += value
Accumulate(energy_sum, value) == energy_sum + value

\* lines 55-62: the body of the inner loop for one period element
PeriodStep(label, period_element, result) ==
    LET energy_type == ENERGY_TYPES_getitem(label)
        parsed == PyInt(period_element.text)
        value == IF parsed.err = "ValueError" THEN 0 ELSE parsed.value
        index == IntOfStr(period_element.periode)
        k == ListPos(Len(result), index.value)
    IN  IF energy_type.err # "" THEN Raise(energy_type.err)
        ELSE IF parsed.err \notin {"", "ValueError"} THEN Raise(parsed.err)
        ELSE IF index.err # "" THEN Raise(index.err)
        ELSE IF k = 0 THEN Raise("IndexError")
        ELSE Ok([result EXCEPT ![k].vals =
                    DictSet(@, energy_type.value,
                            Accumulate(DictGet(@, energy_type.value, 0), value))])

\* line 54: for period_element in energy_type_element
RECURSIVE PeriodLoop(_, _, _, _)
PeriodLoop(label, periods, j, result) ==
    IF j > Len(periods) THEN Ok(result)
    ELSE LET step == PeriodStep(label, periods[j], result)
         IN  IF step.err # "" THEN step
             ELSE PeriodLoop(label, periods, j + 1, step.value)

\* line 53: for energy_type_element in day_element
RECURSIVE TypeLoop(_, _, _)
TypeLoop(types, t, result) ==
    IF t > Len(types) THEN Ok(result)
    ELSE LET inner == PeriodLoop(types[t].v, types[t].periods, 1, result)
         IN  IF inner.err # "" THEN inner
             ELSE TypeLoop(types, t + 1, inner.value)

parse_xml_day(day_element) ==
    IF Len(day_element.types) = 0 THEN Raise("IndexError")
    ELSE LET init == InitialReadings(day_element.date,
                                     Len(day_element.types[1].periods))
         IN  IF init.err # "" THEN init
             ELSE TypeLoop(day_element.types, 1, init.value)

(***************************************************************************)
(* Bounded inputs of the day parser                                        *)
(***************************************************************************)
MaxNodes == 5

Date_ISO == <<"2", "0", "2", "2", "-", "1", "0", "-", "2", "7">>

Date_DMY == <<"2", "7", "/", "1", "0", "/", "2", "0", "2", "2">>

Date_Feb30 == <<"2", "0", "2", "2", "-", "0", "2", "-", "3", "0">>

Txt_100 == Text(<<"1", "0", "0">>)

Txt_7 == Text(<<"7">>)

Txt_ND == Text(<<"N", "D">>)

\* the day element of the concrete scenario: one "Eolien" node with
\* periode 0 -> "100" and periode 1 -> "ND"
ScenarioDay(date) ==
    [date |-> date,
     types |-> << [v |-> "Eolien",
                   periods |-> << [periode |-> <<"0">>, text |-> Txt_100],
                                  [periode |-> <<"1">>, text |-> Txt_ND] >>] >>]

ScenarioDays == {ScenarioDay(d) : d \in {Date_ISO, Date_DMY, Date_Feb30}}

DayDates == {Date_ISO, Date_DMY}

DayLabels == {"Pointe", "Fioul + Pointe", "Inconnu"}

PeriodElems ==
    {[periode |-> <<"0">>, text |-> Txt_100],
     [periode |-> <<"1">>, text |-> Txt_7],
     [periode |-> <<"0">>, text |-> Txt_ND],
     [periode |-> <<"0">>, text |-> NoneText],
     [periode |-> <<"-", "1">>, text |-> Txt_7],
     [periode |-> <<"x">>, text |-> Txt_100]}

TypesWith(n) == [v : DayLabels, periods : [1..n -> PeriodElems]]

RECURSIVE SumSeq(_)
SumSeq(s) == IF Len(s) = 0 THEN 0 ELSE Head(s) + SumSeq(Tail(s))

\* the numbers of period nodes per energy-type node, for day elements with
\* at most MaxNodes energy-type and period nodes in all
Shapes ==
    UNION {{s \in [1..t -> 0..(MaxNodes - t)] : t + SumSeq(s) <= MaxNodes} :
              t \in 0..MaxNodes}

RECURSIVE TypesOfShape(_)
TypesOfShape(s) ==
    IF Len(s) = 0 THEN {<<>>}
    ELSE {<<t>> \o rest : t \in TypesWith(Head(s)), rest \in TypesOfShape(Tail(s))}

DayInputs ==
    ScenarioDays \cup
    UNION {[date : DayDates, types : TypesOfShape(s)] : s \in Shapes}

NoDay == [date |-> <<>>, types |-> <<>>]

NoDoc == [wellFormed |-> FALSE, root |-> <<>>]

NoAnswer == [kind |-> "none", RejectedRecords |-> <<>>]

(***************************************************************************)
(* Calls of parse_xml_day on one day element                               *)
(***************************************************************************)
InitDay ==
    /\ pc = "day_start"
    /\ day \in DayInputs
    /\ dayOut = NotCalled
    /\ xml = NoDoc
    /\ p = NotCalled
    /\ tableOutcome = "none"
    /\ submitted = <<>>
    /\ answer = NoAnswer
    /\ reported = <<>>
    /\ wv = NotCalled
    /\ ret = NotCalled

CallParseXmlDay ==
    /\ pc = "day_start"
    /\ dayOut' = parse_xml_day(day)
    /\ pc' = "day_done"
    /\ UNCHANGED <<day, xml, p, tableOutcome, submitted, answer, reported, wv, ret>>

NextDay == CallParseXmlDay

SpecDay == InitDay /\ [][NextDay]_vars

(***************************************************************************)
(* Vocabulary of the day-parser properties: the period nodes of a day      *)
(* element by position <<energy-type index, period index>>.                *)
(***************************************************************************)
Positions(d) ==
    UNION {{<<t, j>> : j \in 1..Len(d.types[t].periods)} : t \in 1..Len(d.types)}

ElemAt(d, pos) == d.types[pos[1]].periods[pos[2]]

LabelAt(d, pos) == d.types[pos[1]].v

FirstCount(d) == Len(d.types[1].periods)

Before(a, b) == a[1] < b[1] \/ (a[1] = b[1] /\ a[2] < b[2])

KnownLabel(d, pos) == LabelAt(d, pos) \in ENERGY_TYPES_keys

HasText(d, pos) == ~ElemAt(d, pos).text.isNone

\* the periode attribute is an integer that indexes a list of FirstCount(d) items
PeriodeIndexes(d, pos) ==
    /\ IntOfStr(ElemAt(d, pos).periode).err = ""
    /\ ListPos(FirstCount(d), IntOfStr(ElemAt(d, pos).periode).value) # 0

\* the periode attribute is an integer in [0, N)
PeriodeInRange(d, pos) ==
    /\ IntOfStr(ElemAt(d, pos).periode).err = ""
    /\ IntOfStr(ElemAt(d, pos).periode).value \in 0..(FirstCount(d) - 1)

ValidDate(d) == strptime_Ymd(d.date).err = ""

ParsedValue(d, pos) ==
    IF PyInt(ElemAt(d, pos).text).err = "" THEN PyInt(ElemAt(d, pos).text).value ELSE 0

RECURSIVE SumOver(_, _)
SumOver(d, S) ==
    IF S = {} THEN 0
    ELSE LET x == CHOOSE y \in S : TRUE
         IN  ParsedValue(d, x) + SumOver(d, S \ {x})

\* period nodes with periode = i whose energy-type label normalizes to c
Contributors(d, i, c) ==
    {pos \in Positions(d) :
        /\ KnownLabel(d, pos)
        /\ ENERGY_TYPES[LabelAt(d, pos)] = c
        /\ IntOfStr(ElemAt(d, pos).periode) = Ok(i)}

DayDone == pc = "day_done"

DayReturned == pc = "day_done" /\ dayOut.err = ""

(***************************************************************************)
(* C2: when every periode attribute of the day lies in [0, N), each        *)
(* Reading returned by parse_xml_day holds, for each canonical identifier, *)
(* the sum of the parsed values of the period nodes with that periode      *)
(* under every label that normalizes to the identifier; a key is present   *)
(* exactly when there is such a period node.  Aliased labels add up and a  *)
(* period is placed by its attribute, not by its position.                 *)
(***************************************************************************)
C2_SumPerIntervalAndIdentifier ==
    (DayReturned /\ \A pos \in Positions(day) : PeriodeInRange(day, pos)) =>
        \A i \in 1..Len(dayOut.value) :
            /\ DOMAIN dayOut.value[i].vals \subseteq CanonicalIds
            /\ \A c \in CanonicalIds :
                  /\ c \in DOMAIN dayOut.value[i].vals <=> Contributors(day, i - 1, c) # {}
                  /\ DictGet(dayOut.value[i].vals, c, 0) =
                         SumOver(day, Contributors(day, i - 1, c))

\* two aliased labels contribute 100 each to interval 0, and the first node
\* lists periode 1 before periode 0
C2_Witness ==
    /\ DayReturned
    /\ \A pos \in Positions(day) : PeriodeInRange(day, pos)
    /\ Len(day.types) = 2
    /\ day.types[1].v = "Pointe"
    /\ day.types[2].v = "Fioul + Pointe"
    /\ Len(day.types[1].periods) = 2
    /\ day.types[1].periods[1].periode = <<"1">>
    /\ day.types[1].periods[2] = [periode |-> <<"0">>, text |-> Txt_100]
    /\ Len(day.types[2].periods) = 1
    /\ day.types[2].periods[1] = [periode |-> <<"0">>, text |-> Txt_100]
    /\ dayOut.value[1].vals["oil"] = 200

(***************************************************************************)
(* C3: a period node whose text is not an integer (the sentinel "ND",      *)
(* other non-numeric text, or no text at all) raises nothing: on a day     *)
(* that is otherwise in order parse_xml_day returns, and the Reading at    *)
(* the period's interval has the canonical identifier as a key.            *)
(***************************************************************************)
C3_NonIntegerTextContributesZero ==
    ( /\ DayDone
      /\ Len(day.types) >= 1
      /\ ValidDate(day)
      /\ \A pos \in Positions(day) : KnownLabel(day, pos) /\ PeriodeIndexes(day, pos) ) =>
        /\ dayOut.err = ""
        /\ \A pos \in Positions(day) :
              PyInt(ElemAt(day, pos).text).err # "" =>
                  ENERGY_TYPES[LabelAt(day, pos)] \in
                      DOMAIN dayOut.value[ListPos(FirstCount(day),
                                 IntOfStr(ElemAt(day, pos).periode).value)].vals

(***************************************************************************)
(* C4 as stated: every day element with a valid date and N periods in its  *)
(* first energy-type node yields exactly N Readings with country "FR" and  *)
(* times get_unix_timestamp(date, i), 900 seconds apart.  Stated here for  *)
(* days whose period nodes all have a text, so that the failure on an      *)
(* empty value (C3) plays no part.                                         *)
(***************************************************************************)
C4_Original ==
    ( /\ DayDone
      /\ Len(day.types) >= 1
      /\ ValidDate(day)
      /\ \A pos \in Positions(day) : HasText(day, pos) ) =>
        /\ dayOut.err = ""
        /\ Len(dayOut.value) = FirstCount(day)

(***************************************************************************)
(* C4 amended: for a day element with a valid date, parse_xml_day returns  *)
(* exactly when every period node sits under a label of the table, has a   *)
(* text, and has a periode attribute that is an integer in [-N, N); when   *)
(* it returns, it returns exactly N Readings, the i-th with country "FR"   *)
(* and time get_unix_timestamp(date, i), consecutive times 900 apart.      *)
(***************************************************************************)
C4_ReadingsPerInterval ==
    (DayDone /\ Len(day.types) >= 1 /\ ValidDate(day)) =>
        /\ dayOut.err = "" <=>
              \A pos \in Positions(day) :
                  KnownLabel(day, pos) /\ HasText(day, pos) /\ PeriodeIndexes(day, pos)
        /\ dayOut.err = "" =>
              /\ Len(dayOut.value) = FirstCount(day)
              /\ \A i \in 1..Len(dayOut.value) :
                    /\ dayOut.value[i].country = "FR"
                    /\ dayOut.value[i].time = get_unix_timestamp(day.date, i - 1).value
              /\ \A i \in 1..(Len(dayOut.value) - 1) :
                    dayOut.value[i + 1].time = dayOut.value[i].time + 900

C4_Witness ==
    /\ DayReturned
    /\ ValidDate(day)
    /\ Len(dayOut.value) = 2
    /\ dayOut.value[2].time = dayOut.value[1].time + 900
    /\ Len(day.types) = 2

(***************************************************************************)
(* C7 as stated: a day element holding an energy-type node with a label    *)
(* outside the table, whatever the number of its period nodes, makes       *)
(* parse_xml_day fail with the unknown-label error.  Stated here for days  *)
(* with a valid date whose period nodes all have a text and an in-range    *)
(* periode, so that no other failure is in play.                           *)
(***************************************************************************)
C7_Original ==
    ( /\ DayDone
      /\ ValidDate(day)
      /\ \E t \in 1..Len(day.types) : day.types[t].v \notin ENERGY_TYPES_keys
      /\ \A pos \in Positions(day) : HasText(day, pos) /\ PeriodeIndexes(day, pos) ) =>
        dayOut.err = "KeyError"

(***************************************************************************)
(* C7 amended: a day element holding a period node under a label outside   *)
(* the table makes parse_xml_day fail, never return Readings; the failure  *)
(* is the KeyError of the label lookup when the date is valid (or the      *)
(* first energy-type node is empty) and every period node before the       *)
(* first such one has a text and a periode that indexes the result.  An    *)
(* energy-type node with an unknown label and no period node is skipped    *)
(* without error.                                                          *)
(***************************************************************************)
C7_UnknownLabelWithPeriodsRaises ==
    DayDone =>
        /\ \A pos \in Positions(day) :
              ~KnownLabel(day, pos) =>
                  /\ dayOut.err # ""
                  /\ ( /\ ValidDate(day) \/ FirstCount(day) = 0
                       /\ \A q \in Positions(day) :
                             Before(q, pos) =>
                                 /\ KnownLabel(day, q)
                                 /\ HasText(day, q)
                                 /\ PeriodeIndexes(day, q) ) => dayOut.err = "KeyError"
        /\ ( /\ Len(day.types) >= 1
             /\ ValidDate(day)
             /\ \A pos \in Positions(day) :
                   KnownLabel(day, pos) /\ HasText(day, pos) /\ PeriodeIndexes(day, pos) )
           => dayOut.err = ""

C7_Witness ==
    /\ DayDone
    /\ dayOut.err = "KeyError"
    /\ Len(day.types) = 2
    /\ day.types[1].v = "Pointe"
    /\ Len(day.types[1].periods) = 1
    /\ day.types[2].v = "Inconnu"
    /\ Len(day.types[2].periods) = 1

ScenarioReadings ==
    << [time |-> get_unix_timestamp(Date_ISO, 0).value, country |-> "FR",
        vals |-> [k \in {"wind"} |-> 100]],
       [time |-> get_unix_timestamp(Date_ISO, 1).value, country |-> "FR",
        vals |-> [k \in {"wind"} |-> 0]] >>

(***************************************************************************)
(* C10 as stated: a day element dated in DD/MM/YYYY form (27/10/2022) is   *)
(* parsed without error and its Readings carry the times of 2022-10-27;    *)
(* the scenario day yields exactly the Readings wind 100 and wind 0.       *)
(***************************************************************************)
C10_Original ==
    (DayDone /\ day = ScenarioDay(Date_DMY)) => dayOut = Ok(ScenarioReadings)

(***************************************************************************)
(* C10 amended: the scenario day dated in YYYY-MM-DD form (2022-10-27)     *)
(* yields exactly the two Readings with the times of 2022-10-27, wind 100  *)
(* and wind 0; a day element dated 27/10/2022 whose first energy-type node *)
(* has at least one period makes parse_xml_day raise ValueError.           *)
(***************************************************************************)
C10_ScenarioNeedsIsoDate ==
    DayDone =>
        /\ day = ScenarioDay(Date_ISO) =>
              /\ dayOut = Ok(ScenarioReadings)
              /\ dayOut.value[1].time = 1666828800
        /\ (day.date = Date_DMY /\ Len(day.types) >= 1 /\ FirstCount(day) >= 1) =>
              dayOut.err = "ValueError"

C10_Witness == DayReturned /\ day = ScenarioDay(Date_ISO)

(***************************************************************************)
(* parse_xml: the document is its root's list of children, or malformed    *)
(* markup on which ET.fromstring raises ParseError.                        *)
(***************************************************************************)
FirstDataDay == 7

\* line 74: for day_index in range(7, len(root)), day_index counted from 0
RECURSIVE DayLoop(_, _, _)
DayLoop(root, day_index, result) ==
    IF day_index >= Len(root) THEN Ok(result)
    ELSE LET one == parse_xml_day(root[day_index + 1])
         IN  IF one.err # "" THEN one
             ELSE DayLoop(root, day_index + 1, result \o one.value)

\* the loop started one child early
parse_xml_from6(doc) ==
    IF ~doc.wellFormed THEN Raise("ParseError")
    ELSE DayLoop(doc.root, FirstDataDay - 1, <<>>)

\* root[7] read before the loop
parse_xml_indexed(doc) ==
    IF ~doc.wellFormed THEN Raise("ParseError")
    ELSE IF Len(doc.root) <= FirstDataDay THEN Raise("IndexError")
    ELSE DayLoop(doc.root, FirstDataDay, <<>>)

parse_xml(doc) ==
    IF ~doc.wellFormed THEN Raise("ParseError")
    ELSE DayLoop(doc.root, FirstDataDay, <<>>)

(***************************************************************************)
(* write_values                                                            *)
(***************************************************************************)
StrKey(s) == [kind |-> "str", s |-> s, i |-> 0]

IntKey(i) == [kind |-> "int", s |-> "", i |-> i]

\* list[key]: a key that is not an integer raises TypeError
ListGetItem(list, key) ==
    IF key.kind # "int" THEN Raise("TypeError")
    ELSE IF ListPos(Len(list), key.i) = 0 THEN Raise("IndexError")
    ELSE Ok(list[ListPos(Len(list), key.i)])

\* line 165: the order of the measures in a record
MeasureNames ==
    <<"nuclear", "coal", "gas", "heavy-oil", "oil", "hydro", "wind", "others",
      "pumped-storage", "solar", "consumption">>

\* lines 104-166: the record of one loop iteration; every field is read from
\* `reading` (the whole list), not from the loop variable r
BuildRecord(reading) ==
    LET time == ListGetItem(reading, StrKey("time"))
        measures == [m \in 1..Len(MeasureNames) |->
                        ListGetItem(reading, StrKey(MeasureNames[m]))]
        failed == {m \in 1..Len(MeasureNames) : measures[m].err # ""}
    IN  IF time.err # "" THEN Raise(time.err)
        ELSE IF failed # {}
             THEN Raise(measures[CHOOSE m \in failed : \A n \in failed : m <= n].err)
        ELSE Ok([Time |-> time.value * 1000,
                 MeasureValues |-> [m \in 1..Len(MeasureNames) |->
                                       [Name |-> MeasureNames[m],
                                        Value |-> measures[m].value,
                                        Type |-> "BIGINT"]]])

\* lines 101-166: for r in reading
RECURSIVE BuildRecords(_, _, _)
BuildRecords(reading, k, records) ==
    IF k > Len(reading) THEN Ok(records)
    ELSE LET record == BuildRecord(reading)
         IN  IF record.err # "" THEN record
             ELSE BuildRecords(reading, k + 1, Append(records, record.value))

\* lines 168-180: what is printed and raised for the store's answer
HandleAnswer(ans) ==
    CASE ans.kind = "ok" -> [err |-> "", reported |-> <<>>]
      [] ans.kind = "error" -> [err |-> "", reported |-> <<>>]
      [] ans.kind = "rejected" ->
            LET rejected == ans.RejectedRecords
                lines == [k \in 1..Len(rejected) |->
                             [RecordIndex |-> rejected[k].RecordIndex,
                              Reason |-> rejected[k].Reason]]
            IN  \* line 177 reads rr after the loop: unbound when the loop did not run,
                \* otherwise the last rejected record
                IF Len(rejected) = 0
                THEN [err |-> "UnboundLocalError", reported |-> lines]
                ELSE IF rejected[Len(rejected)].ExistingVersion
                THEN [err |-> "",
                      reported |-> Append(lines,
                          [RecordIndex |-> rejected[Len(rejected)].RecordIndex,
                           Reason |-> "ExistingVersion"])]
                ELSE [err |-> "", reported |-> lines]

\* json.dumps of a string without characters to escape
json_dumps(s) == "\"" \o s \o "\""

(***************************************************************************)
(* Bounded inputs of one invocation                                        *)
(***************************************************************************)
MaxDataDays == 3

MaxRejected == 2

Date_ISO_28 == <<"2", "0", "2", "2", "-", "1", "0", "-", "2", "8">>

DocDayA == ScenarioDay(Date_ISO)

DocDayB ==
    [date |-> Date_ISO_28,
     types |-> << [v |-> "Pointe",
                   periods |-> << [periode |-> <<"0">>, text |-> Txt_100] >>],
                  [v |-> "Fioul + Pointe",
                   periods |-> << [periode |-> <<"0">>, text |-> Txt_100] >>] >>]

DocDayC == ScenarioDay(Date_DMY)

\* a day element without period nodes: parsed to no Reading
DocDayE == [date |-> Date_ISO, types |-> << [v |-> "Solaire", periods |-> <<>>] >>]

DocDays == {DocDayA, DocDayB, DocDayC, DocDayE}

\* n copies of one child
Leading(h, n) == [i \in 1..n |-> h]

\* malformed markup; roots with fewer than 7 children; roots with 7 leading
\* children followed by up to MaxDataDays data days
Docs ==
    {[wellFormed |-> FALSE, root |-> <<>>]} \cup
    {[wellFormed |-> TRUE, root |-> Leading(h, n)] :
        h \in DocDays, n \in 0..(FirstDataDay - 1)} \cup
    UNION {{[wellFormed |-> TRUE, root |-> Leading(h, FirstDataDay) \o data] :
               h \in DocDays, data \in [1..n -> DocDays]} : n \in 0..MaxDataDays}

RejectedRecordSet ==
    {[RecordIndex |-> 0, Reason |-> "version", ExistingVersion |-> TRUE],
     [RecordIndex |-> 1, Reason |-> "range", ExistingVersion |-> FALSE]}

StoreAnswers ==
    {[kind |-> "ok", RejectedRecords |-> <<>>],
     [kind |-> "error", RejectedRecords |-> <<>>]} \cup
    UNION {[kind : {"rejected"}, RejectedRecords : [1..n -> RejectedRecordSet]] :
              n \in 0..MaxRejected}

(***************************************************************************)
(* lambda_handler: one invocation                                          *)
(***************************************************************************)
Init ==
    /\ pc = "fetch"
    /\ day = NoDay
    /\ dayOut = NotCalled
    /\ xml = NoDoc
    /\ p = NotCalled
    /\ tableOutcome = "none"
    /\ submitted = <<>>
    /\ answer = NoAnswer
    /\ reported = <<>>
    /\ wv = NotCalled
    /\ ret = NotCalled

\* line 199: requests.get raises
FetchFails ==
    /\ pc = "fetch"
    /\ ret' = Raise("RequestException")
    /\ pc' = "done"
    /\ UNCHANGED <<day, dayOut, xml, p, tableOutcome, submitted, answer, reported, wv>>

\* line 199: requests.get answers with a body
Fetch ==
    /\ pc = "fetch"
    /\ xml' \in Docs
    /\ pc' = "parse"
    /\ UNCHANGED <<day, dayOut, p, tableOutcome, submitted, answer, reported, wv, ret>>

\* line 201
Parse ==
    /\ pc = "parse"
    /\ p' = parse_xml(xml)
    /\ IF p'.err # ""
       THEN ret' = Raise(p'.err) /\ pc' = "done"
       ELSE pc' = "create_table" /\ UNCHANGED ret
    /\ UNCHANGED <<day, dayOut, xml, tableOutcome, submitted, answer, reported, wv>>

\* lines 182-196: every outcome of the store is caught
create_table ==
    /\ pc = "create_table"
    /\ tableOutcome' \in {"created", "ConflictException", "Exception"}
    /\ pc' = "write_values"
    /\ UNCHANGED <<day, dayOut, xml, p, submitted, answer, reported, wv, ret>>

\* lines 88-180, called at line 211
write_values ==
    /\ pc = "write_values"
    /\ LET records == BuildRecords(p.value, 1, <<>>)
       IN  IF records.err # ""
           THEN /\ wv' = Raise(records.err)
                /\ ret' = Raise(records.err)
                /\ pc' = "done"
                /\ UNCHANGED <<submitted, answer, reported>>
           ELSE \E ans \in StoreAnswers :
                    /\ submitted' = Append(submitted, records.value)
                    /\ answer' = ans
                    /\ reported' = HandleAnswer(ans).reported
                    /\ IF HandleAnswer(ans).err # ""
                       THEN /\ wv' = Raise(HandleAnswer(ans).err)
                            /\ ret' = Raise(HandleAnswer(ans).err)
                            /\ pc' = "done"
                       ELSE /\ wv' = Ok(<<>>)
                            /\ pc' = "return"
                            /\ UNCHANGED ret
    /\ UNCHANGED <<day, dayOut, xml, p, tableOutcome>>

\* lines 213-216
Return ==
    /\ pc = "return"
    /\ ret' = Ok([statusCode |-> 200, body |-> json_dumps("Job successful")])
    /\ pc' = "done"
    /\ UNCHANGED <<day, dayOut, xml, p, tableOutcome, submitted, answer, reported, wv>>

Next == FetchFails \/ Fetch \/ Parse \/ create_table \/ write_values \/ Return

Spec == Init /\ [][Next]_vars

(***************************************************************************)
(* Vocabulary of the document and invocation properties                    *)
(***************************************************************************)
DataDays(root) == SubSeq(root, FirstDataDay + 1, Len(root))

RECURSIVE Flatten(_)
Flatten(ss) ==
    IF Len(ss) = 0 THEN <<>>
    ELSE Flatten(SubSeq(ss, 1, Len(ss) - 1)) \o ss[Len(ss)]

Parsed == p # NotCalled /\ xml.wellFormed

Finished == pc = "done"

(***************************************************************************)
(* C1: an invocation whose fetch and parse succeed never raises and        *)
(* returns statusCode 200 with the body "Job successful" (as json.dumps    *)
(* writes it), whatever was parsed and whatever the store answered to the  *)
(* table creation and to the write.                                        *)
(***************************************************************************)
C1_SuccessWhateverTheStoreSays ==
    (Finished /\ p # NotCalled /\ p.err = "") =>
        ret = Ok([statusCode |-> 200, body |-> "\"Job successful\""])

(***************************************************************************)
(* C5: for a well-formed document with at least 7 children, parse_xml      *)
(* returns the concatenation, in document order, of parse_xml_day over the *)
(* children at positions 7, 8, ... (raising what the first failing one of  *)
(* them raises); the first 7 children contribute nothing, and with exactly *)
(* 7 leading days and 1 data day the result is that day's Readings.        *)
(***************************************************************************)
C5_ConcatenationAfterSevenDays ==
    (Parsed /\ Len(xml.root) >= 7) =>
        LET data == DataDays(xml.root)
            each == [i \in 1..Len(data) |-> parse_xml_day(data[i])]
            failing == {i \in 1..Len(data) : each[i].err # ""}
        IN  /\ failing = {} =>
                  p = Ok(Flatten([i \in 1..Len(data) |-> each[i].value]))
            /\ failing # {} =>
                  p = each[CHOOSE i \in failing : \A j \in failing : i <= j]
            /\ Len(xml.root) = 8 => p = parse_xml_day(xml.root[8])

\* leading days that would yield Readings are skipped; two data days are
\* concatenated in document order
C5_Witness ==
    /\ Parsed
    /\ Len(xml.root) = 9
    /\ xml.root[1] = DocDayA
    /\ xml.root[7] = DocDayA
    /\ xml.root[8] = DocDayB
    /\ xml.root[9] = DocDayA
    /\ p.err = ""
    /\ Len(p.value) = 3
    /\ p.value[1].vals = [k \in {"oil"} |-> 200]
    /\ p.value[3].vals = [k \in {"wind"} |-> 0]

C8_OneRecordPerReading ==
    (wv # NotCalled /\ Len(p.value) >= 1) =>
        /\ Len(submitted) = 1
        /\ Len(submitted[1]) = Len(p.value)
        /\ \A k \in 1..Len(p.value) :
              /\ submitted[1][k].Time = p.value[k].time * 1000
              /\ \A m \in 1..Len(MeasureNames) :
                    MeasureNames[m] \in DOMAIN p.value[k].vals =>
                        submitted[1][k].MeasureValues[m].Value =
                            p.value[k].vals[MeasureNames[m]]

(***************************************************************************)
(* C9: when the store answers the write with rejected records, for any     *)
(* list of them (the empty one included), write_values reports every       *)
(* rejected record with its index and reason and returns normally; the     *)
(* rejection raises nothing and does not abort the invocation.             *)
(***************************************************************************)
C9_RejectionReportedNotRaised ==
    answer.kind = "rejected" =>
        /\ wv = Ok(<<>>)
        /\ ret.err \in {"", "not-called"}
        /\ Len(reported) >= Len(answer.RejectedRecords)
        /\ \A k \in 1..Len(answer.RejectedRecords) :
              reported[k] = [RecordIndex |-> answer.RejectedRecords[k].RecordIndex,
                             Reason |-> answer.RejectedRecords[k].Reason]

=============================================================================
